---- MODULE Spec2Model ----
(***************************************************************************)
(* Model of router.go: the handler registry (RouteTable) and the routing   *)
(* middleware (RouterWithDefault) of the bot application framework.        *)
(*                                                                         *)
(* A Go string is a sequence of one-character strings, so that splitting   *)
(* on the delimiter is computed and not assumed.  The registry is a        *)
(* function from the handler kinds that have a partition to a function     *)
(* from the names registered in it to their HandlerInfo.                   *)
(***************************************************************************)
EXTENDS Naturals, Sequences, FiniteSets, TLC

VARIABLES
    handlers,   \* RouteTable.handlers: kind -> (name -> HandlerInfo)
    first,      \* history: (kind, name) -> the Func of its first successful AddHandler
    last,       \* the call that has just returned: its arguments and what it produced
    running     \* the calls in progress on concurrent goroutines, and what they share

vars == <<handlers, first, last, running>>

-----------------------------------------------------------------------------
(* Bounds of the model *)

\* longest callback payload / command argument string
MaxLen == 3
\* largest number of attachment fields set on one dispatched message
MaxAttached == 2

-----------------------------------------------------------------------------
(* Strings *)

CommandDelimiter == "|"

Chars == {"a", CommandDelimiter}

Strings == UNION {[1..n -> Chars] : n \in 0..MaxLen}

EmptyString == <<>>
StrA == <<"a">>
StrDocument == <<"d", "o", "c", "u", "m", "e", "n", "t">>
StrPhoto == <<"p", "h", "o", "t", "o">>
StrVideo == <<"v", "i", "d", "e", "o">>
StrAudio == <<"a", "u", "d", "i", "o">>
StrVoice == <<"v", "o", "i", "c", "e">>
StrVideoNote == <<"v", "i", "d", "e", "o", "_", "n", "o", "t", "e">>
StrSticker == <<"s", "t", "i", "c", "k", "e", "r">>

\* strings.Split(s, sep) for a one-character sep: the fields between the
\* separators, in order; n separators give n + 1 fields, so the empty string
\* gives one empty field.
RECURSIVE Split(_, _)
Split(s, sep) ==
    IF s = <<>> THEN << <<>> >>
    ELSE LET rest == Split(Tail(s), sep)
         IN  IF Head(s) = sep
             THEN << <<>> >> \o rest
             ELSE << <<Head(s)>> \o Head(rest) >> \o Tail(rest)

-----------------------------------------------------------------------------
(* Handler kinds, handler functions, registry entries *)

CommandHandler == "CommandHandler"
CallbackHandler == "CallbackHandler"
MessageHandler == "MessageHandler"
DocumentHandler == "DocumentHandler"

HandlerAction == {CommandHandler, CallbackHandler, MessageHandler, DocumentHandler}

\* a nil HandlerFunc, the built-in default handler, and the application's handlers
NilFunc == "nil"
defaultHandler == "defaultHandler"
Funcs == {"f1", "f2"}

HandlerInfo(name, handlerType, f) == [Name |-> name, Type |-> handlerType, Func |-> f]

\* what *HandlerInfo points to when GetHandler misses inside a partition:
\* Go's zero value of the struct
ZeroHandlerInfo == HandlerInfo(EmptyString, CommandHandler, NilFunc)
\* the nil *HandlerInfo
NilHandlerInfo == [nil |-> TRUE]

\* the nil error
Nil == [type |-> "nil"]
NewErrInvalidArgument(msg, arg) == [type |-> "InvalidArgument", arg |-> arg]
NewErrHandlerAlreadyExists(name, handlerType) ==
    [type |-> "HandlerAlreadyExists", name |-> name, handlerType |-> handlerType]

\* a Go map, and m[k] = v on it
EmptyMap == <<>>
MapPut(m, k, v) == [x \in (DOMAIN m) \cup {k} |-> IF x = k THEN v ELSE m[x]]

\* NewRouteTable
NewRouteTable == EmptyMap

-----------------------------------------------------------------------------
(* RouteTable *)

\* a plausible slip: the insert (line 158) is reached without the existence check
AddHandlerOverwrites(r, name, handlerType, f) ==
    IF Len(name) < 1
    THEN [handlers |-> r, err |-> NewErrInvalidArgument("name must not be empty.", "name")]
    ELSE LET r1 == IF handlerType \notin DOMAIN r
                   THEN MapPut(r, handlerType, EmptyMap) ELSE r
         IN  [handlers |-> MapPut(r1, handlerType,
                                  MapPut(r1[handlerType], name, HandlerInfo(name, handlerType, f))),
              err |-> Nil]

\* a plausible slip: the empty-name check (line 146) is missing
AddHandlerNoNameCheck(r, name, handlerType, f) ==
    LET r1 == IF handlerType \notin DOMAIN r
              THEN MapPut(r, handlerType, EmptyMap) ELSE r
    IN  IF name \in DOMAIN r1[handlerType]
        THEN [handlers |-> r1, err |-> NewErrHandlerAlreadyExists(name, handlerType)]
        ELSE [handlers |-> MapPut(r1, handlerType,
                                  MapPut(r1[handlerType], name, HandlerInfo(name, handlerType, f))),
              err |-> Nil]

\* a plausible slip: the partition is made anew on every call (the !ok test
\* of line 150 is missing), which drops the partition's other entries
AddHandlerResetsPartition(r, name, handlerType, f) ==
    IF Len(name) < 1
    THEN [handlers |-> r, err |-> NewErrInvalidArgument("name must not be empty.", "name")]
    ELSE LET r1 == MapPut(r, handlerType, EmptyMap)
         IN  [handlers |-> MapPut(r1, handlerType,
                                  MapPut(r1[handlerType], name, HandlerInfo(name, handlerType, f))),
              err |-> Nil]

\* RouteTable.AddHandler on registry r: the registry afterwards and the error returned
RouteTableAddHandler(r, name, handlerType, f) ==
    IF Len(name) < 1
    THEN [handlers |-> r, err |-> NewErrInvalidArgument("name must not be empty.", "name")]
    ELSE LET r1 == IF handlerType \notin DOMAIN r
                   THEN MapPut(r, handlerType, EmptyMap) ELSE r
         IN  IF name \in DOMAIN r1[handlerType]
             THEN [handlers |-> r1, err |-> NewErrHandlerAlreadyExists(name, handlerType)]
             ELSE [handlers |-> MapPut(r1, handlerType,
                                       MapPut(r1[handlerType], name, HandlerInfo(name, handlerType, f))),
                   err |-> Nil]

\* a plausible slip: the lookup makes the missing partition, as AddHandler does
GetHandlerCreatesPartition(r, name, handlerType) ==
    LET r1 == IF handlerType \notin DOMAIN r
              THEN MapPut(r, handlerType, EmptyMap) ELSE r
        gp == r1[handlerType]
    IN  IF name \in DOMAIN gp
        THEN [h |-> gp[name], ok |-> TRUE, handlers |-> r1]
        ELSE [h |-> ZeroHandlerInfo, ok |-> FALSE, handlers |-> r1]

\* a plausible slip: the name is looked up without regard to the kind
GetHandlerAnyKind(r, name, handlerType) ==
    LET ks == {k \in DOMAIN r : name \in DOMAIN r[k]}
    IN  IF ks = {}
        THEN [h |-> NilHandlerInfo, ok |-> FALSE, handlers |-> r]
        ELSE [h |-> r[CHOOSE k \in ks : TRUE][name], ok |-> TRUE, handlers |-> r]

\* RouteTable.GetHandler on registry r: the pointer's target, the found flag,
\* and the registry afterwards (reading a Go map inserts nothing)
RouteTableGetHandler(r, name, handlerType) ==
    IF handlerType \notin DOMAIN r
    THEN [h |-> NilHandlerInfo, ok |-> FALSE, handlers |-> r]
    ELSE LET gp == r[handlerType]
         IN  IF name \in DOMAIN gp
             THEN [h |-> gp[name], ok |-> TRUE, handlers |-> r]
             ELSE [h |-> ZeroHandlerInfo, ok |-> FALSE, handlers |-> r]

-----------------------------------------------------------------------------
(* Updates, messages, sessions, the dispatch context *)

\* a nil pointer: no callback query, no message, no session
NilPtr == [nil |-> TRUE]

\* the attachment fields of a message that can be non-nil
AttachmentFields == {"Document", "Photo", "Video", "Audio", "Voice", "VideoNote", "Sticker"}

\* A message, as the router reads it: what IsCommand(), Command() and
\* CommandArguments() return for it, and which attachment fields are non-nil.
Message(isCommand, command, arguments, attached) ==
    [IsCommand |-> isCommand, Command |-> command, CommandArguments |-> arguments,
     attached |-> attached]

CallbackQuery(data) == [Data |-> data]
Update(callbackQuery, message) == [CallbackQuery |-> callbackQuery, Message |-> message]
Session(state) == [CurrentState |-> state]

BotContext(update, params, session) ==
    [Update |-> update, Params |-> params, Session |-> session, handler |-> NilFunc]

\* BotContext.SetHandler
SetHandler(context, f) == [context EXCEPT !.handler = f]

hasDocument(message) ==
    \/ "Document" \in message.attached
    \/ "Photo" \in message.attached
    \/ "Video" \in message.attached
    \/ "Audio" \in message.attached
    \/ "Voice" \in message.attached
    \/ "VideoNote" \in message.attached
    \/ "Sticker" \in message.attached

\* a plausible slip: the photo field is tested before the document field
getDocumentTypePhotoFirst(message) ==
    IF "Photo" \in message.attached THEN StrPhoto
    ELSE IF "Document" \in message.attached THEN StrDocument
    ELSE IF "Video" \in message.attached THEN StrVideo
    ELSE IF "Audio" \in message.attached THEN StrAudio
    ELSE IF "Voice" \in message.attached THEN StrVoice
    ELSE IF "VideoNote" \in message.attached THEN StrVideoNote
    ELSE IF "Sticker" \in message.attached THEN StrSticker
    ELSE StrDocument

getDocumentType(message) ==
    IF "Document" \in message.attached THEN StrDocument
    ELSE IF "Photo" \in message.attached THEN StrPhoto
    ELSE IF "Video" \in message.attached THEN StrVideo
    ELSE IF "Audio" \in message.attached THEN StrAudio
    ELSE IF "Voice" \in message.attached THEN StrVoice
    ELSE IF "VideoNote" \in message.attached THEN StrVideoNote
    ELSE IF "Sticker" \in message.attached THEN StrSticker
    ELSE StrDocument

\* a plausible slip: args = s instead of args = s[1:]
extractCallbackKeepsAction(callbackData) ==
    IF Len(callbackData) < 1
    THEN [action |-> EmptyString, args |-> <<>>]
    ELSE LET s == Split(callbackData, CommandDelimiter)
         IN  [action |-> s[1],
              args |-> IF Len(s) > 1 THEN s ELSE <<>>]

extractCallback(callbackData) ==
    IF Len(callbackData) < 1
    THEN [action |-> EmptyString, args |-> <<>>]
    ELSE LET s == Split(callbackData, CommandDelimiter)
         IN  [action |-> s[1],
              args |-> IF Len(s) > 1 THEN SubSeq(s, 2, Len(s)) ELSE <<>>]

-----------------------------------------------------------------------------
(* RouterWithDefault: the cases of its switch.  Each gives the handler f   *)
(* chosen, the context's Params afterwards, the GetHandler calls made in   *)
(* order, and the registry after them.                                     *)

Lookup(name, handlerType) == [name |-> name, handlerType |-> handlerType]

\* a plausible slip: a missing Document handler ends the case (a break after
\* the lookup, whatever it found)
MessageCaseDocMissBreaks(router, defaultFunc, context) ==
    LET message == context.Update.Message
        has == hasDocument(message)
        docType == getDocumentType(message)
        d == RouteTableGetHandler(router, docType, DocumentHandler)
    IN  IF has
        THEN [f |-> IF d.ok THEN d.h.Func ELSE defaultFunc, Params |-> context.Params,
              lookups |-> <<Lookup(docType, DocumentHandler)>>, router |-> d.handlers]
        ELSE IF context.Session # NilPtr
        THEN LET state == context.Session.CurrentState
                 g == RouteTableGetHandler(router, state, MessageHandler)
             IN  [f |-> IF g.ok THEN g.h.Func ELSE defaultFunc,
                  Params |-> context.Params,
                  lookups |-> <<Lookup(state, MessageHandler)>>,
                  router |-> g.handlers]
        ELSE [f |-> defaultFunc, Params |-> context.Params, lookups |-> <<>>, router |-> router]

\* a plausible slip: the session check is nested in the attachment check, so
\* a message without an attachment never reaches it
MessageCaseSessionNeedsDocument(router, defaultFunc, context) ==
    LET message == context.Update.Message
        has == hasDocument(message)
        docType == getDocumentType(message)
        d == RouteTableGetHandler(router, docType, DocumentHandler)
        l1 == <<Lookup(docType, DocumentHandler)>>
    IN  IF ~has
        THEN [f |-> defaultFunc, Params |-> context.Params, lookups |-> <<>>, router |-> router]
        ELSE IF d.ok
        THEN [f |-> d.h.Func, Params |-> context.Params, lookups |-> l1, router |-> d.handlers]
        ELSE IF context.Session # NilPtr
        THEN LET state == context.Session.CurrentState
                 g == RouteTableGetHandler(d.handlers, state, MessageHandler)
             IN  [f |-> IF g.ok THEN g.h.Func ELSE defaultFunc,
                  Params |-> context.Params,
                  lookups |-> l1 \o <<Lookup(state, MessageHandler)>>,
                  router |-> g.handlers]
        ELSE [f |-> defaultFunc, Params |-> context.Params, lookups |-> l1,
              router |-> d.handlers]

\* a plausible slip: the Document lookup is made without the hasDocument test
MessageCaseAlwaysLooksUpDocument(router, defaultFunc, context) ==
    LET message == context.Update.Message
        docType == getDocumentType(message)
        d == RouteTableGetHandler(router, docType, DocumentHandler)
        l1 == <<Lookup(docType, DocumentHandler)>>
    IN  IF d.ok
        THEN [f |-> d.h.Func, Params |-> context.Params, lookups |-> l1, router |-> d.handlers]
        ELSE IF context.Session # NilPtr
        THEN LET state == context.Session.CurrentState
                 g == RouteTableGetHandler(d.handlers, state, MessageHandler)
             IN  [f |-> IF g.ok THEN g.h.Func ELSE defaultFunc,
                  Params |-> context.Params,
                  lookups |-> l1 \o <<Lookup(state, MessageHandler)>>,
                  router |-> g.handlers]
        ELSE [f |-> defaultFunc, Params |-> context.Params, lookups |-> l1,
              router |-> d.handlers]

\* a plausible slip: the session-state check is written before the
\* attachment check
MessageCaseSessionFirst(router, defaultFunc, context) ==
    LET message == context.Update.Message
        has == hasDocument(message)
        docType == getDocumentType(message)
        state == context.Session.CurrentState
        g == RouteTableGetHandler(router, state, MessageHandler)
        d == RouteTableGetHandler(router, docType, DocumentHandler)
    IN  IF context.Session # NilPtr /\ g.ok
        THEN [f |-> g.h.Func, Params |-> context.Params,
              lookups |-> <<Lookup(state, MessageHandler)>>, router |-> g.handlers]
        ELSE IF has
        THEN [f |-> IF d.ok THEN d.h.Func ELSE defaultFunc, Params |-> context.Params,
              lookups |-> <<Lookup(docType, DocumentHandler)>>, router |-> d.handlers]
        ELSE [f |-> defaultFunc, Params |-> context.Params, lookups |-> <<>>, router |-> router]

\* case context.Update.Message != nil (lines 94-112)
MessageCase(router, defaultFunc, context) ==
    LET message == context.Update.Message
        has == hasDocument(message)
        docType == getDocumentType(message)
        d == RouteTableGetHandler(router, docType, DocumentHandler)
        r1 == IF has THEN d.handlers ELSE router
        l1 == IF has THEN <<Lookup(docType, DocumentHandler)>> ELSE <<>>
    IN  IF has /\ d.ok
        THEN [f |-> d.h.Func, Params |-> context.Params, lookups |-> l1, router |-> r1]
        ELSE IF context.Session # NilPtr
        THEN LET state == context.Session.CurrentState
                 g == RouteTableGetHandler(r1, state, MessageHandler)
             IN  [f |-> IF g.ok THEN g.h.Func ELSE defaultFunc,
                  Params |-> context.Params,
                  lookups |-> l1 \o <<Lookup(state, MessageHandler)>>,
                  router |-> g.handlers]
        ELSE [f |-> defaultFunc, Params |-> context.Params, lookups |-> l1, router |-> r1]

\* a plausible slip: a missing Command handler falls into the message case
CommandCaseFallsThrough(router, defaultFunc, context) ==
    LET message == context.Update.Message
        command == message.Command
        g == RouteTableGetHandler(router, command, CommandHandler)
        m == MessageCase(g.handlers, defaultFunc, context)
    IN  IF ~g.ok
        THEN [m EXCEPT !.lookups = <<Lookup(command, CommandHandler)>> \o m.lookups]
        ELSE [f |-> g.h.Func,
              Params |-> Split(message.CommandArguments, CommandDelimiter),
              lookups |-> <<Lookup(command, CommandHandler)>>, router |-> g.handlers]

\* a plausible slip: an empty argument string gives no parameters
CommandCaseDropsEmpty(router, defaultFunc, context) ==
    LET message == context.Update.Message
        command == message.Command
        g == RouteTableGetHandler(router, command, CommandHandler)
    IN  IF ~g.ok
        THEN [f |-> defaultFunc, Params |-> context.Params,
              lookups |-> <<Lookup(command, CommandHandler)>>, router |-> g.handlers]
        ELSE [f |-> g.h.Func,
              Params |-> IF message.CommandArguments = EmptyString THEN <<>>
                         ELSE Split(message.CommandArguments, CommandDelimiter),
              lookups |-> <<Lookup(command, CommandHandler)>>, router |-> g.handlers]

\* a plausible slip: the parameters are assigned before the lookup (line 92
\* moved above line 84)
CommandCaseSplitsBeforeLookup(router, defaultFunc, context) ==
    LET message == context.Update.Message
        command == message.Command
        g == RouteTableGetHandler(router, command, CommandHandler)
    IN  [f |-> IF g.ok THEN g.h.Func ELSE defaultFunc,
         Params |-> Split(message.CommandArguments, CommandDelimiter),
         lookups |-> <<Lookup(command, CommandHandler)>>, router |-> g.handlers]

\* case context.Update.Message != nil && IsCommand() (lines 82-92)
CommandCase(router, defaultFunc, context) ==
    LET message == context.Update.Message
        command == message.Command
        g == RouteTableGetHandler(router, command, CommandHandler)
    IN  IF ~g.ok
        THEN [f |-> defaultFunc, Params |-> context.Params,
              lookups |-> <<Lookup(command, CommandHandler)>>, router |-> g.handlers]
        ELSE [f |-> g.h.Func,
              Params |-> Split(message.CommandArguments, CommandDelimiter),
              lookups |-> <<Lookup(command, CommandHandler)>>, router |-> g.handlers]

\* a plausible slip: a missing Callback handler falls into the command and
\* message cases (a fallthrough instead of a break)
CallbackCaseFallsThrough(router, defaultFunc, context) ==
    LET callbackData == context.Update.CallbackQuery.Data
        cb == extractCallback(callbackData)
        g == RouteTableGetHandler(router, cb.action, CallbackHandler)
        c1 == [context EXCEPT !.Params = cb.args]
        m == IF context.Update.Message = NilPtr
             THEN [f |-> defaultFunc, Params |-> cb.args, lookups |-> <<>>, router |-> g.handlers]
             ELSE IF context.Update.Message.IsCommand
             THEN CommandCase(g.handlers, defaultFunc, c1)
             ELSE MessageCase(g.handlers, defaultFunc, c1)
    IN  IF g.ok
        THEN [f |-> g.h.Func, Params |-> cb.args,
              lookups |-> <<Lookup(cb.action, CallbackHandler)>>, router |-> g.handlers]
        ELSE [m EXCEPT !.lookups = <<Lookup(cb.action, CallbackHandler)>> \o m.lookups]

\* case context.Update.CallbackQuery != nil (lines 68-80)
CallbackCase(router, defaultFunc, context) ==
    LET callbackData == context.Update.CallbackQuery.Data
        cb == extractCallback(callbackData)
        g == RouteTableGetHandler(router, cb.action, CallbackHandler)
    IN  [f |-> IF g.ok THEN g.h.Func ELSE defaultFunc,
         Params |-> cb.args,
         lookups |-> <<Lookup(cb.action, CallbackHandler)>>,
         router |-> g.handlers]

\* a plausible slip: the command case is written before the callback case
SwitchCommandFirst(router, defaultFunc, context) ==
    IF context.Update.Message # NilPtr /\ context.Update.Message.IsCommand
    THEN CommandCase(router, defaultFunc, context)
    ELSE IF context.Update.CallbackQuery # NilPtr
    THEN CallbackCase(router, defaultFunc, context)
    ELSE IF context.Update.Message # NilPtr
    THEN MessageCase(router, defaultFunc, context)
    ELSE [f |-> defaultFunc, Params |-> context.Params, lookups |-> <<>>, router |-> router]

\* the switch (lines 66-113): the first case whose condition holds
Switch(router, defaultFunc, context) ==
    IF context.Update.CallbackQuery # NilPtr
    THEN CallbackCase(router, defaultFunc, context)
    ELSE IF context.Update.Message # NilPtr /\ context.Update.Message.IsCommand
    THEN CommandCase(router, defaultFunc, context)
    ELSE IF context.Update.Message # NilPtr
    THEN MessageCase(router, defaultFunc, context)
    ELSE [f |-> defaultFunc, Params |-> context.Params, lookups |-> <<>>, router |-> router]

\* calls made on the context and the continuation, as the middleware makes them
CallSetHandler(f) == [call |-> "SetHandler", f |-> f]
CallNext(context) == [call |-> "next", handler |-> context.handler, Params |-> context.Params]

\* a plausible slip: a callback without a handler returns from the middleware
\* (return instead of break at line 77)
RouterWithDefaultReturnsOnMiss(router, defaultFunc, context) ==
    LET s == Switch(router, defaultFunc, context)
        c1 == [context EXCEPT !.Params = s.Params]
        c2 == SetHandler(c1, s.f)
    IN  IF context.Update.CallbackQuery # NilPtr /\ s.f = defaultFunc
        THEN [context |-> c1, router |-> s.router, lookups |-> s.lookups, calls |-> <<>>]
        ELSE [context |-> c2, router |-> s.router, lookups |-> s.lookups,
              calls |-> <<CallSetHandler(s.f), CallNext(c2)>>]

\* The middleware RouterWithDefault(router, defaultFunc) returns, run on one
\* context: the context afterwards, the registry afterwards, the GetHandler
\* calls and the SetHandler / next calls it made, in order.
RouterWithDefault(router, defaultFunc, context) ==
    LET s == Switch(router, defaultFunc, context)
        c1 == [context EXCEPT !.Params = s.Params]
        c2 == SetHandler(c1, s.f)
    IN  [context |-> c2, router |-> s.router, lookups |-> s.lookups,
         calls |-> <<CallSetHandler(s.f), CallNext(c2)>>]

\* RouterMiddleware(router): the middleware with the built-in default handler
RouterMiddleware(router, context) == RouterWithDefault(router, defaultHandler, context)

-----------------------------------------------------------------------------
(* The state machine: calls on one RouteTable, and dispatches through it *)

\* names looked up by GetHandler, and the names offered to AddHandler under
\* each kind: the empty name and "a" under every kind, and a document type
\* tag under the Document kind
Names == {EmptyString, StrA, StrPhoto}
NamesOf(handlerType) ==
    IF handlerType = DocumentHandler THEN Names ELSE {EmptyString, StrA}

\* the updates dispatched
AttachedSets == {a \in SUBSET AttachmentFields : Cardinality(a) <= MaxAttached}
CommandMessages ==
    {Message(TRUE, StrA, arguments, attached) :
        arguments \in Strings, attached \in {{}, {"Photo"}}}
PlainMessages == {Message(FALSE, EmptyString, EmptyString, attached) : attached \in AttachedSets}
CallbackUpdates ==
    {Update(CallbackQuery(data), message) :
        data \in Strings,
        message \in {NilPtr, Message(TRUE, StrA, EmptyString, {"Photo"}),
                     Message(FALSE, EmptyString, EmptyString, {"Photo"})}}
MessageUpdates == {Update(NilPtr, message) : message \in CommandMessages \cup PlainMessages}
Updates == CallbackUpdates \cup MessageUpdates \cup {Update(NilPtr, NilPtr)}

Sessions == {NilPtr, Session(StrA)}

\* the parameter list a context can carry into the middleware
PriorParams == {<<>>, <<StrA>>}

NoCall == [op |-> "none"]

\* the goroutines of the concurrent specifications: two dispatches of the
\* middleware; two AddHandler calls and a GetHandler call
Dispatchers == {"d1", "d2"}
Writers == {"w1", "w2"}
Readers == {"r1"}
Goroutines == Dispatchers \cup Writers \cup Readers

\* The variable f of one invocation of the middleware (line 66): declared
\* inside the returned func, so every invocation has its own.
FSlotShared(g) == "closure"
FSlot(g) == g

\* No goroutine has started: frame is each goroutine's position and locals,
\* f the middleware's f variables, outer and heap the registry's maps as
\* objects (kind -> map object, map object -> its entries), crashed the
\* runtime's fatal error.
Quiet ==
    [frame |-> [g \in Goroutines |-> [pc |-> "idle"]],
     f |-> [x \in {FSlot(g) : g \in Dispatchers} |-> NilFunc],
     outer |-> EmptyMap,
     heap |-> EmptyMap,
     crashed |-> FALSE]

Init ==
    /\ handlers = NewRouteTable
    /\ first = EmptyMap
    /\ last = NoCall
    /\ running = Quiet

AddHandler(name, handlerType, f) ==
    LET res == RouteTableAddHandler(handlers, name, handlerType, f)
        key == <<handlerType, name>>
    IN  /\ last = NoCall
        /\ handlers' = res.handlers
        /\ first' = IF res.err = Nil /\ key \notin DOMAIN first
                    THEN MapPut(first, key, f) ELSE first
        /\ last' = [op |-> "AddHandler", name |-> name, handlerType |-> handlerType,
                    f |-> f, err |-> res.err]
        /\ UNCHANGED running

GetHandler(name, handlerType) ==
    LET res == RouteTableGetHandler(handlers, name, handlerType)
    IN  /\ last = NoCall
        /\ handlers' = res.handlers
        /\ last' = [op |-> "GetHandler", name |-> name, handlerType |-> handlerType,
                    h |-> res.h, ok |-> res.ok]
        /\ UNCHANGED <<first, running>>

\* one update dispatched through RouterMiddleware(router) on its own context
Dispatch(update, session, params) ==
    LET context == BotContext(update, params, session)
        res == RouterMiddleware(handlers, context)
    IN  /\ last = NoCall
        /\ handlers' = res.router
        /\ last' = [op |-> "Dispatch", before |-> context, context |-> res.context,
                    lookups |-> res.lookups, calls |-> res.calls]
        /\ UNCHANGED <<first, running>>

\* extractCallback applied to one payload
ExtractCallback(callbackData) ==
    LET res == extractCallback(callbackData)
    IN  /\ last = NoCall
        /\ last' = [op |-> "extractCallback", callbackData |-> callbackData,
                    action |-> res.action, args |-> res.args]
        /\ UNCHANGED <<handlers, first, running>>

\* getDocumentType applied to one message
GetDocumentType(message) ==
    /\ last = NoCall
    /\ last' = [op |-> "getDocumentType", message |-> message,
                docType |-> getDocumentType(message)]
    /\ UNCHANGED <<handlers, first, running>>

\* the caller has taken the call's result; the next call can be made
Return ==
    /\ last # NoCall
    /\ last' = NoCall
    /\ UNCHANGED <<handlers, first, running>>

Next ==
    \/ \E handlerType \in HandlerAction :
           \E name \in NamesOf(handlerType), f \in Funcs :
               AddHandler(name, handlerType, f)
    \/ \E name \in Names, handlerType \in HandlerAction :
           GetHandler(name, handlerType)
    \/ \E update \in Updates, session \in Sessions, params \in PriorParams :
           Dispatch(update, session, params)
    \/ \E callbackData \in Strings : ExtractCallback(callbackData)
    \/ \E attached \in SUBSET AttachmentFields :
           GetDocumentType(Message(FALSE, EmptyString, EmptyString, attached))
    \/ Return

Spec == Init /\ [][Next]_vars

-----------------------------------------------------------------------------
(* Concurrent dispatch: after a single-threaded registration phase, two     *)
(* invocations of the middleware run on their own goroutines, one step at a *)
(* time, against the one registry.  A step is a statement of lines 63-116   *)
(* that reads or writes something another invocation could reach: the       *)
(* variable f, the registry (a GetHandler call), the context.               *)

Frame(g) == running.frame[g]
NoDispatchStarted == \A g \in Dispatchers : Frame(g).pc = "idle"

\* the handler name registered under each kind in the registration phase
ConcName(handlerType) == IF handlerType = DocumentHandler THEN StrPhoto ELSE StrA

\* the contexts dispatched concurrently: a callback, a command, a message
\* with an attachment and a session, a message with a session only, an
\* update with neither a callback nor a message
ConcContexts ==
    {BotContext(Update(CallbackQuery(<<"a", CommandDelimiter, "a">>),
                       Message(TRUE, StrA, EmptyString, {"Photo"})),
                <<>>, Session(StrA)),
     BotContext(Update(NilPtr, Message(TRUE, StrA, <<"a", CommandDelimiter, "a">>, {})),
                <<StrA>>, NilPtr),
     BotContext(Update(NilPtr, Message(FALSE, EmptyString, EmptyString, {"Photo"})),
                <<StrA>>, Session(StrA)),
     BotContext(Update(NilPtr, Message(FALSE, EmptyString, EmptyString, {})),
                <<>>, Session(StrA)),
     BotContext(Update(NilPtr, NilPtr), <<StrA>>, NilPtr)}

\* AddHandler in the registration phase: no dispatch has started
Register(name, handlerType, f) ==
    /\ NoDispatchStarted
    /\ AddHandler(name, handlerType, f)

\* the transport calls the middleware on goroutine g with its own context
\* (line 63)
DispatchCall(g, context) ==
    /\ last = NoCall
    /\ Frame(g).pc = "idle"
    /\ running' = [running EXCEPT !.frame[g] =
                      [pc |-> "line66", before |-> context, context |-> context,
                       lookups |-> <<>>, calls |-> <<>>]]
    /\ UNCHANGED <<handlers, first, last>>

\* var f HandlerFunc = defaultFunc (line 66)
DispatchLine66(g, defaultFunc) ==
    /\ Frame(g).pc = "line66"
    /\ running' = [running EXCEPT !.f[FSlot(g)] = defaultFunc,
                                  !.frame[g].pc = "switch"]
    /\ UNCHANGED <<handlers, first, last>>

\* the switch (lines 67-69, 82, 94): the first case whose condition holds;
\* the callback case assigns context.Params at once (line 71)
DispatchSwitch(g) ==
    LET context == Frame(g).context
    IN  /\ Frame(g).pc = "switch"
        /\ running' =
              IF context.Update.CallbackQuery # NilPtr
              THEN [running EXCEPT
                       !.frame[g].context.Params =
                           extractCallback(context.Update.CallbackQuery.Data).args,
                       !.frame[g].pc = "line73"]
              ELSE IF context.Update.Message # NilPtr /\ context.Update.Message.IsCommand
              THEN [running EXCEPT !.frame[g].pc = "line84"]
              ELSE IF context.Update.Message # NilPtr
              THEN [running EXCEPT !.frame[g].pc = "line95"]
              ELSE [running EXCEPT !.frame[g].pc = "line115"]
        /\ UNCHANGED <<handlers, first, last>>

\* callback case: the lookup and what follows it (lines 73-80)
DispatchCallback(g) ==
    LET context == Frame(g).context
        action == extractCallback(context.Update.CallbackQuery.Data).action
        res == RouteTableGetHandler(handlers, action, CallbackHandler)
    IN  /\ Frame(g).pc = "line73"
        /\ handlers' = res.handlers
        /\ running' = [running EXCEPT
               !.f[FSlot(g)] = IF res.ok THEN res.h.Func ELSE @,
               !.frame[g].lookups = Append(@, Lookup(action, CallbackHandler)),
               !.frame[g].pc = "line115"]
        /\ UNCHANGED <<first, last>>

\* command case: the lookup and what follows it (lines 84-92)
DispatchCommand(g) ==
    LET context == Frame(g).context
        message == context.Update.Message
        res == RouteTableGetHandler(handlers, message.Command, CommandHandler)
    IN  /\ Frame(g).pc = "line84"
        /\ handlers' = res.handlers
        /\ running' = [running EXCEPT
               !.f[FSlot(g)] = IF res.ok THEN res.h.Func ELSE @,
               !.frame[g].context.Params =
                   IF res.ok THEN Split(message.CommandArguments, CommandDelimiter) ELSE @,
               !.frame[g].lookups = Append(@, Lookup(message.Command, CommandHandler)),
               !.frame[g].pc = "line115"]
        /\ UNCHANGED <<first, last>>

\* message case: the attachment check and the Document lookup (lines 95-102)
DispatchDocument(g) ==
    LET context == Frame(g).context
        message == context.Update.Message
        docType == getDocumentType(message)
        res == RouteTableGetHandler(handlers, docType, DocumentHandler)
    IN  /\ Frame(g).pc = "line95"
        /\ IF hasDocument(message)
           THEN /\ handlers' = res.handlers
                /\ running' = [running EXCEPT
                       !.f[FSlot(g)] = IF res.ok THEN res.h.Func ELSE @,
                       !.frame[g].lookups = Append(@, Lookup(docType, DocumentHandler)),
                       !.frame[g].pc = IF res.ok THEN "line115" ELSE "line104"]
           ELSE /\ handlers' = handlers
                /\ running' = [running EXCEPT !.frame[g].pc = "line104"]
        /\ UNCHANGED <<first, last>>

\* message case: the session check and the Message lookup (lines 104-112)
DispatchSession(g) ==
    LET context == Frame(g).context
        state == context.Session.CurrentState
        res == RouteTableGetHandler(handlers, state, MessageHandler)
    IN  /\ Frame(g).pc = "line104"
        /\ IF context.Session # NilPtr
           THEN /\ handlers' = res.handlers
                /\ running' = [running EXCEPT
                       !.f[FSlot(g)] = IF res.ok THEN res.h.Func ELSE @,
                       !.frame[g].lookups = Append(@, Lookup(state, MessageHandler)),
                       !.frame[g].pc = "line115"]
           ELSE /\ handlers' = handlers
                /\ running' = [running EXCEPT !.frame[g].pc = "line115"]
        /\ UNCHANGED <<first, last>>

\* context.SetHandler(f) (line 115)
DispatchLine115(g) ==
    LET f == running.f[FSlot(g)]
    IN  /\ Frame(g).pc = "line115"
        /\ running' = [running EXCEPT
               !.frame[g].context = SetHandler(@, f),
               !.frame[g].calls = Append(@, CallSetHandler(f)),
               !.frame[g].pc = "line116"]
        /\ UNCHANGED <<handlers, first, last>>

\* next(context) (line 116), and the middleware returns
DispatchLine116(g) ==
    /\ Frame(g).pc = "line116"
    /\ running' = [running EXCEPT
           !.frame[g].calls = Append(@, CallNext(Frame(g).context)),
           !.frame[g].pc = "done"]
    /\ UNCHANGED <<handlers, first, last>>

NextConc ==
    \/ \E handlerType \in HandlerAction, f \in Funcs :
           Register(ConcName(handlerType), handlerType, f)
    \/ Return
    \/ \E g \in Dispatchers, context \in ConcContexts : DispatchCall(g, context)
    \/ \E g \in Dispatchers : DispatchLine66(g, defaultHandler)
    \/ \E g \in Dispatchers : DispatchSwitch(g)
    \/ \E g \in Dispatchers : DispatchCallback(g)
    \/ \E g \in Dispatchers : DispatchCommand(g)
    \/ \E g \in Dispatchers : DispatchDocument(g)
    \/ \E g \in Dispatchers : DispatchSession(g)
    \/ \E g \in Dispatchers : DispatchLine115(g)
    \/ \E g \in Dispatchers : DispatchLine116(g)

SpecConc == Init /\ [][NextConc]_vars

-----------------------------------------------------------------------------
(* Dynamic registration: two AddHandler calls and a GetHandler call run on  *)
(* their own goroutines against the one registry, one map access at a time. *)
(* RouteTable holds no lock, so the accesses race.  The registry's maps are *)
(* objects: outer is r.handlers (kind -> map object), heap the entries of   *)
(* each map object; a map object is named after the goroutine whose line    *)
(* 151 made it.  A map write takes two steps (begun, stored); a goroutine   *)
(* that reaches a map another goroutine is writing either goes on with what *)
(* is stored so far or is stopped by the runtime's fatal error.             *)

\* r.handlers as the sequential model has it: kind -> entries
RegistryOf(run) == [k \in DOMAIN run.outer |-> run.heap[run.outer[k]]]

Pending == [type |-> "pending"]
NoObject == "none"

RegNames == {EmptyString, StrA}
RegKinds == {CommandHandler, CallbackHandler}

\* another goroutine is in the middle of writing r.handlers / map object obj
WritingOuter(g) == \E w \in Writers \ {g} : Frame(w).pc = "line151w"
WritingObject(g, obj) ==
    \E w \in Writers \ {g} : Frame(w).pc = "line158w" /\ Frame(w).target = obj
\* ... of writing an entry for this name into map object obj
WritingEntry(g, obj, name) ==
    \E w \in Writers \ {g} :
        /\ Frame(w).pc = "line158w" /\ Frame(w).target = obj
        /\ Frame(w).name = name

\* a step of the registration specification: the registry seen by the
\* sequential definitions follows the map objects
RegStep(run) ==
    /\ ~running.crashed
    /\ running' = run
    /\ handlers' = RegistryOf(run)
    /\ UNCHANGED <<first, last>>

\* r.AddHandler(name, handlerType, f) is called on goroutine g (line 145)
AddHandlerCall(g, name, handlerType, f) ==
    /\ last = NoCall
    /\ Frame(g).pc = "idle"
    /\ RegStep([running EXCEPT !.frame[g] =
                   [pc |-> "line146", name |-> name, handlerType |-> handlerType,
                    f |-> f, err |-> Pending, target |-> NoObject]])

\* if len(name) < 1 { return NewErrInvalidArgument(...) } (lines 146-148)
AddHandlerLine146(g) ==
    /\ Frame(g).pc = "line146"
    /\ RegStep(IF Len(Frame(g).name) < 1
               THEN [running EXCEPT
                        !.frame[g].err =
                            NewErrInvalidArgument("name must not be empty.", "name"),
                        !.frame[g].pc = "done"]
               ELSE [running EXCEPT !.frame[g].pc = "line150"])

\* if _, ok := r.handlers[handlerType]; !ok (line 150)
AddHandlerLine150(g) ==
    /\ Frame(g).pc = "line150"
    /\ RegStep([running EXCEPT !.frame[g].pc =
                   IF Frame(g).handlerType \in DOMAIN running.outer
                   THEN "line154" ELSE "line151"])

\* r.handlers[handlerType] = make(map[string]HandlerInfo) (line 151): the
\* write is begun ...
AddHandlerLine151(g) ==
    /\ Frame(g).pc = "line151"
    /\ RegStep([running EXCEPT !.frame[g].pc = "line151w"])

\* ... and stored: whatever map object the kind had is replaced
AddHandlerLine151Stored(g) ==
    /\ Frame(g).pc = "line151w"
    /\ RegStep([running EXCEPT
                   !.heap = MapPut(@, g, EmptyMap),
                   !.outer = MapPut(@, Frame(g).handlerType, g),
                   !.frame[g].pc = "line154"])

\* if _, ok := r.handlers[handlerType][name]; ok { return
\* NewErrHandlerAlreadyExists(...) } (lines 154-156).  While another goroutine
\* is writing an entry for the name into the map, the slot may already be seen.
AddHandlerLine154(g) ==
    LET obj == running.outer[Frame(g).handlerType]
        name == Frame(g).name
    IN  /\ Frame(g).pc = "line154"
        /\ \E ok \in {name \in DOMAIN running.heap[obj]}
                     \cup (IF WritingEntry(g, obj, name) THEN {TRUE} ELSE {}) :
               RegStep(IF ok
                       THEN [running EXCEPT
                                !.frame[g].err =
                                    NewErrHandlerAlreadyExists(name, Frame(g).handlerType),
                                !.frame[g].pc = "done"]
                       ELSE [running EXCEPT !.frame[g].pc = "line158"])

\* r.handlers[handlerType][name] = HandlerInfo{...} (lines 158-162): the map
\* object is read from r.handlers and the write to it is begun ...
AddHandlerLine158(g) ==
    /\ Frame(g).pc = "line158"
    /\ RegStep([running EXCEPT
                   !.frame[g].target = running.outer[Frame(g).handlerType],
                   !.frame[g].pc = "line158w"])

\* ... and stored, and AddHandler returns nil (line 164)
AddHandlerLine158Stored(g) ==
    LET fr == Frame(g)
    IN  /\ fr.pc = "line158w"
        /\ RegStep([running EXCEPT
                       !.heap[fr.target] =
                           MapPut(@, fr.name, HandlerInfo(fr.name, fr.handlerType, fr.f)),
                       !.frame[g].err = Nil,
                       !.frame[g].pc = "done"])

\* r.GetHandler(name, handlerType) is called on goroutine g (line 169)
GetHandlerCall(g, name, handlerType) ==
    /\ last = NoCall
    /\ Frame(g).pc = "idle"
    /\ RegStep([running EXCEPT !.frame[g] =
                   [pc |-> "line170", name |-> name, handlerType |-> handlerType,
                    gp |-> NoObject, h |-> NilHandlerInfo, ok |-> FALSE]])

\* gp, ok := r.handlers[handlerType]; if !ok { return nil, false }
\* (lines 170-173)
GetHandlerLine170(g) ==
    /\ Frame(g).pc = "line170"
    /\ RegStep(IF Frame(g).handlerType \in DOMAIN running.outer
               THEN [running EXCEPT
                        !.frame[g].gp = running.outer[Frame(g).handlerType],
                        !.frame[g].pc = "line175"]
               ELSE [running EXCEPT !.frame[g].pc = "done"])

\* an entry read while it is being written: the slot is there and the value
\* is not, or not all of it
TornEntries(name, handlerType) ==
    {ZeroHandlerInfo, HandlerInfo(name, handlerType, NilFunc)}

\* h, ok := gp[name]; return &h, ok (lines 175-177)
GetHandlerLine175(g) ==
    LET fr == Frame(g)
        gp == running.heap[fr.gp]
        stored == IF fr.name \in DOMAIN gp
                  THEN [h |-> gp[fr.name], ok |-> TRUE]
                  ELSE [h |-> ZeroHandlerInfo, ok |-> FALSE]
        torn == IF fr.name \notin DOMAIN gp /\ WritingEntry(g, fr.gp, fr.name)
                THEN {[h |-> e, ok |-> TRUE] : e \in TornEntries(fr.name, fr.handlerType)}
                ELSE {}
    IN  /\ fr.pc = "line175"
        /\ \E res \in {stored} \cup torn :
               RegStep([running EXCEPT
                           !.frame[g].h = res.h,
                           !.frame[g].ok = res.ok,
                           !.frame[g].pc = "done"])

\* goroutine g is about to read or write a map another goroutine is writing
Races(g) ==
    LET fr == Frame(g)
        pc == fr.pc
    IN  \/ pc \in {"line150", "line151", "line170"} /\ WritingOuter(g)
        \/ /\ pc \in {"line154", "line158"}
           /\ \/ WritingOuter(g)
              \/ WritingObject(g, running.outer[fr.handlerType])
        \/ pc = "line175" /\ WritingObject(g, fr.gp)

\* the runtime finds the map being written ("concurrent map writes",
\* "concurrent map read and map write") and ends the program
FatalError(g) ==
    /\ Races(g)
    /\ RegStep([running EXCEPT !.crashed = TRUE])

NextReg ==
    \/ \E g \in Writers, name \in RegNames, handlerType \in RegKinds, f \in Funcs :
           AddHandlerCall(g, name, handlerType, f)
    \/ \E g \in Writers : AddHandlerLine146(g)
    \/ \E g \in Writers : AddHandlerLine150(g)
    \/ \E g \in Writers : AddHandlerLine151(g)
    \/ \E g \in Writers : AddHandlerLine151Stored(g)
    \/ \E g \in Writers : AddHandlerLine154(g)
    \/ \E g \in Writers : AddHandlerLine158(g)
    \/ \E g \in Writers : AddHandlerLine158Stored(g)
    \/ \E g \in Readers, handlerType \in RegKinds : GetHandlerCall(g, StrA, handlerType)
    \/ \E g \in Readers : GetHandlerLine170(g)
    \/ \E g \in Readers : GetHandlerLine175(g)
    \/ \E g \in Goroutines : FatalError(g)

SpecReg == Init /\ [][NextReg]_vars

-----------------------------------------------------------------------------
(* What the properties are stated with *)

\* the fields joined with the separator between them: the inverse of Split
RECURSIVE Join(_, _)
Join(fields, sep) ==
    IF fields = <<>> THEN <<>>
    ELSE IF Len(fields) = 1 THEN fields[1]
    ELSE fields[1] \o <<sep>> \o Join(Tail(fields), sep)

Count(s, c) == Cardinality({i \in 1..Len(s) : s[i] = c})

\* fields is s cut at every separator: as many fields as separators plus one,
\* none of them holding a separator, and joined they give s back
IsSplitOf(fields, s, sep) ==
    /\ Len(fields) = Count(s, sep) + 1
    /\ \A i \in 1..Len(fields) : Count(fields[i], sep) = 0
    /\ Join(fields, sep) = s

\* s up to its first separator, all of s when it has none
FirstField(s, sep) ==
    LET at == {i \in 1..Len(s) : s[i] = sep}
    IN  IF at = {} THEN s
        ELSE SubSeq(s, 1, (CHOOSE i \in at : \A j \in at : i <= j) - 1)

\* the attachment fields in their order of precedence, and each one's tag
Precedence == <<"Document", "Photo", "Video", "Audio", "Voice", "VideoNote", "Sticker">>
Tags == <<StrDocument, StrPhoto, StrVideo, StrAudio, StrVoice, StrVideoNote, StrSticker>>
EarliestTag(attached) ==
    Tags[CHOOSE i \in 1..Len(Precedence) :
            /\ Precedence[i] \in attached
            /\ \A j \in 1..(i - 1) : Precedence[j] \notin attached]

Registered(handlerType, name) ==
    handlerType \in DOMAIN handlers /\ name \in DOMAIN handlers[handlerType]

Dispatched == last.op = "Dispatch"
IsCallback == Dispatched /\ last.before.Update.CallbackQuery # NilPtr
IsCommand ==
    /\ Dispatched
    /\ last.before.Update.CallbackQuery = NilPtr
    /\ last.before.Update.Message # NilPtr
    /\ last.before.Update.Message.IsCommand
IsPlainMessage ==
    /\ Dispatched
    /\ last.before.Update.CallbackQuery = NilPtr
    /\ last.before.Update.Message # NilPtr
    /\ ~last.before.Update.Message.IsCommand
HasSession == Dispatched /\ last.before.Session # NilPtr

\* the handler the dispatch left on the context
Selected == last.context.handler

-----------------------------------------------------------------------------
(* C1 *)

\* C1: an AddHandler(name, kind, f2) issued after a successful
\* AddHandler(name, kind, f1) returns HandlerAlreadyExists carrying name and
\* kind, and after every step GetHandler(name, kind) reports found with the
\* handler of the first successful registration: the entry is never
\* overwritten or removed.
C1_DuplicateRejectedFirstKept ==
    [][ /\ (last'.op = "AddHandler" /\ <<last'.handlerType, last'.name>> \in DOMAIN first)
            => last'.err = [type |-> "HandlerAlreadyExists", name |-> last'.name,
                            handlerType |-> last'.handlerType]
        /\ \A key \in DOMAIN first :
              LET g == RouteTableGetHandler(handlers', key[2], key[1])
              IN  g.ok /\ g.h.Func = first[key]
        /\ (last'.op = "GetHandler" /\ <<last'.handlerType, last'.name>> \in DOMAIN first)
            => last'.ok /\ last'.h.Func = first[<<last'.handlerType, last'.name>>]
      ]_vars

\* a second registration of a registered (kind, name) with another handler
\* has just been rejected
C1_Witness ==
    /\ last.op = "AddHandler"
    /\ last.err.type = "HandlerAlreadyExists"
    /\ <<last.handlerType, last.name>> \in DOMAIN first
    /\ first[<<last.handlerType, last.name>>] # last.f

-----------------------------------------------------------------------------
(* C2 *)

\* C2: AddHandler with an empty name returns InvalidArgument, for every kind
\* and whether or not the kind's partition exists, and leaves the registry
\* as it was.
C2_EmptyNameInvalidArgument ==
    [][ (last'.op = "AddHandler" /\ last'.name = EmptyString)
            => /\ last'.err.type = "InvalidArgument"
               /\ handlers' = handlers
               /\ \A k \in DOMAIN handlers' : EmptyString \notin DOMAIN handlers'[k]
      ]_vars

\* an empty-name registration under a kind whose partition exists has just failed
C2_Witness ==
    /\ last.op = "AddHandler"
    /\ last.name = EmptyString
    /\ last.handlerType \in DOMAIN handlers
    /\ last.err.type = "InvalidArgument"

-----------------------------------------------------------------------------
(* C3 *)

\* C3: an update with a callback payload is resolved by the callback branch
\* only: the one lookup made is GetHandler(action, Callback), with action the
\* first "|"-field of the payload, and the handler selected is the Callback
\* entry of that action or the default handler, whatever command, attachment
\* or session the update also carries.
C3_CallbackBranchOnly ==
    IsCallback =>
        LET data == last.before.Update.CallbackQuery.Data
        IN  /\ Len(last.lookups) = 1
            /\ last.lookups[1].handlerType = CallbackHandler
            /\ last.lookups[1].name = FirstField(data, CommandDelimiter)
            /\ Selected = IF Registered(CallbackHandler, last.lookups[1].name)
                          THEN handlers[CallbackHandler][last.lookups[1].name].Func
                          ELSE defaultHandler

\* a callback whose action has a Callback handler, on an update that is also
\* a command with a different Command handler registered: the Callback
\* handler was selected
C3_Witness ==
    /\ IsCallback
    /\ last.before.Update.Message # NilPtr
    /\ last.before.Update.Message.IsCommand
    /\ Registered(CommandHandler, last.before.Update.Message.Command)
    /\ Registered(CallbackHandler, last.lookups[1].name)
    /\ handlers[CommandHandler][last.before.Update.Message.Command].Func # Selected
    /\ Selected = handlers[CallbackHandler][last.lookups[1].name].Func

-----------------------------------------------------------------------------
(* C4 *)

\* C4: a callback whose action has no Callback handler gets the default
\* handler, and no command or message lookup is made for it, whatever
\* Command, Document or MessageState handlers match the same update.
C4_CallbackMissIsDefault ==
    (IsCallback /\ ~Registered(CallbackHandler,
                               FirstField(last.before.Update.CallbackQuery.Data,
                                          CommandDelimiter)))
        => /\ Selected = defaultHandler
           /\ \A i \in 1..Len(last.calls) :
                 last.calls[i].call = "SetHandler" => last.calls[i].f = defaultHandler
           /\ \A i \in 1..Len(last.lookups) : last.lookups[i].handlerType = CallbackHandler

\* a callback without a handler, on a command message with a registered
\* Command handler and an attachment with a registered Document handler,
\* with a session whose state has a MessageState handler
C4_Witness ==
    /\ IsCallback
    /\ ~Registered(CallbackHandler,
                   FirstField(last.before.Update.CallbackQuery.Data, CommandDelimiter))
    /\ last.before.Update.Message # NilPtr
    /\ last.before.Update.Message.IsCommand
    /\ Registered(CommandHandler, last.before.Update.Message.Command)
    /\ "Photo" \in last.before.Update.Message.attached
    /\ Registered(DocumentHandler, StrPhoto)
    /\ HasSession
    /\ Registered(MessageHandler, last.before.Session.CurrentState)
    /\ Selected = defaultHandler

-----------------------------------------------------------------------------
(* C5 *)

\* C5: a command (not a callback) whose name has no Command handler gets the
\* default handler; the Command lookup is the only lookup made, so neither
\* the document nor the session-state branch is consulted.
C5_CommandMissIsDefault ==
    (IsCommand /\ ~Registered(CommandHandler, last.before.Update.Message.Command))
        => /\ Selected = defaultHandler
           /\ last.lookups = <<[name |-> last.before.Update.Message.Command,
                                handlerType |-> CommandHandler]>>

\* a command without a handler, carrying an attachment with a registered
\* Document handler, with a session whose state has a MessageState handler
C5_Witness ==
    /\ IsCommand
    /\ ~Registered(CommandHandler, last.before.Update.Message.Command)
    /\ "Photo" \in last.before.Update.Message.attached
    /\ Registered(DocumentHandler, StrPhoto)
    /\ HasSession
    /\ Registered(MessageHandler, last.before.Session.CurrentState)
    /\ Selected = defaultHandler

-----------------------------------------------------------------------------
(* C6 *)

\* C6: a message (no callback, no command) with an attachment whose tag has
\* no Document handler, with a session whose current state has a
\* MessageState handler, gets that MessageState handler.
C6_DocumentMissFallsToSessionState ==
    ( /\ IsPlainMessage
      /\ last.before.Update.Message.attached # {}
      /\ ~Registered(DocumentHandler, EarliestTag(last.before.Update.Message.attached))
      /\ HasSession
      /\ Registered(MessageHandler, last.before.Session.CurrentState) )
        => Selected = handlers[MessageHandler][last.before.Session.CurrentState].Func

\* such a message, while the Document partition exists (it holds another
\* tag): the MessageState handler was selected
C6_Witness ==
    /\ IsPlainMessage
    /\ last.before.Update.Message.attached # {}
    /\ DocumentHandler \in DOMAIN handlers
    /\ ~Registered(DocumentHandler, EarliestTag(last.before.Update.Message.attached))
    /\ HasSession
    /\ Registered(MessageHandler, last.before.Session.CurrentState)
    /\ Selected \in Funcs

-----------------------------------------------------------------------------
(* C7 *)

\* C7: with at least one attachment field set, the document type tag is the
\* tag of the earliest set field in the order document, photo, video, audio,
\* voice, video_note, sticker, for every combination of set fields; a
\* dispatched message's Document lookup is made under that tag.
C7_DocumentTypePrecedence ==
    /\ (last.op = "getDocumentType" /\ last.message.attached # {})
           => last.docType = EarliestTag(last.message.attached)
    /\ (IsPlainMessage /\ last.before.Update.Message.attached # {})
           => /\ Len(last.lookups) >= 1
              /\ last.lookups[1] =
                    [name |-> EarliestTag(last.before.Update.Message.attached),
                     handlerType |-> DocumentHandler]

\* a dispatched message with both document and photo set, while a Document
\* handler is registered for "photo": the lookup was made under "document"
\* and the photo handler was not selected
C7_Witness ==
    /\ IsPlainMessage
    /\ {"Document", "Photo"} \subseteq last.before.Update.Message.attached
    /\ Registered(DocumentHandler, StrPhoto)
    /\ last.lookups[1] = [name |-> StrDocument, handlerType |-> DocumentHandler]
    /\ Selected # handlers[DocumentHandler][StrPhoto].Func

-----------------------------------------------------------------------------
(* C8 *)

\* C8: a command resolved to a registered Command handler sets the context's
\* parameters to the argument string cut at every "|", in order; the empty
\* argument string gives one parameter, the empty string.
C8_CommandParamsSplit ==
    (IsCommand /\ Registered(CommandHandler, last.before.Update.Message.Command))
        => /\ Selected = handlers[CommandHandler][last.before.Update.Message.Command].Func
           /\ IsSplitOf(last.context.Params,
                        last.before.Update.Message.CommandArguments, CommandDelimiter)
           /\ (last.before.Update.Message.CommandArguments = EmptyString
                  => last.context.Params = <<EmptyString>>)
           /\ \A i \in 1..Len(last.calls) :
                 last.calls[i].call = "next" => last.calls[i].Params = last.context.Params

\* a resolved command with an empty argument string: one empty parameter
C8_Witness ==
    /\ IsCommand
    /\ Registered(CommandHandler, last.before.Update.Message.Command)
    /\ last.before.Update.Message.CommandArguments = EmptyString
    /\ last.before.Params # <<EmptyString>>
    /\ last.context.Params = <<EmptyString>>

-----------------------------------------------------------------------------
(* C9 *)

\* C9: extractCallback gives, for the empty payload, the empty action and no
\* args; otherwise the action is the first "|"-field of the payload and the
\* args are the remaining fields in order, none when the payload has no "|".
C9_ExtractCallback ==
    last.op = "extractCallback" =>
        IF last.callbackData = EmptyString
        THEN last.action = EmptyString /\ last.args = <<>>
        ELSE /\ IsSplitOf(<<last.action>> \o last.args, last.callbackData, CommandDelimiter)
             /\ last.action = FirstField(last.callbackData, CommandDelimiter)
             /\ (Count(last.callbackData, CommandDelimiter) = 0 => last.args = <<>>)

\* a payload with an action and two further fields
C9_Witness ==
    /\ last.op = "extractCallback"
    /\ last.action # EmptyString
    /\ Len(last.args) = 2
    /\ Count(last.callbackData, CommandDelimiter) = 2

-----------------------------------------------------------------------------
(* C10 *)

CallsOf(what) == {i \in 1..Len(last.calls) : last.calls[i].call = what}

\* C10: one dispatch, whatever the update's shape, the registry and the
\* session, sets the resolved handler on the context exactly once and calls
\* next exactly once, after the handler was set and with that handler.
C10_SetHandlerThenNextOnce ==
    Dispatched =>
        /\ Cardinality(CallsOf("SetHandler")) = 1
        /\ Cardinality(CallsOf("next")) = 1
        /\ \A i \in CallsOf("SetHandler"), j \in CallsOf("next") :
              /\ i < j
              /\ last.calls[j].handler = last.calls[i].f
              /\ last.calls[i].f = Selected
        /\ Selected # NilFunc

\* a callback without a handler was dispatched: the default handler was set,
\* then next was called
C10_Witness ==
    /\ IsCallback
    /\ Selected = defaultHandler
    /\ Len(last.calls) = 2
    /\ last.calls[1].call = "SetHandler"
    /\ last.calls[2].call = "next"

-----------------------------------------------------------------------------
(* C11 *)

\* the Document handler the message case selects, if any: the message has an
\* attachment and its tag is registered
DocumentSelected ==
    /\ last.before.Update.Message.attached # {}
    /\ Registered(DocumentHandler, EarliestTag(last.before.Update.Message.attached))

\* C11: for a message (no callback, no command) for which no Document
\* handler was selected, the handler is the MessageState handler of the
\* session's current state when a session is attached and that handler is
\* registered, and the default handler otherwise (no session, or no handler
\* for its state).
C11_SessionStateOrDefault ==
    (IsPlainMessage /\ ~DocumentSelected)
        => Selected = IF HasSession /\ Registered(MessageHandler,
                                                  last.before.Session.CurrentState)
                      THEN handlers[MessageHandler][last.before.Session.CurrentState].Func
                      ELSE defaultHandler

\* a message without any attachment, with a session whose state has a
\* MessageState handler: that handler was selected
C11_Witness ==
    /\ IsPlainMessage
    /\ last.before.Update.Message.attached = {}
    /\ HasSession
    /\ Registered(MessageHandler, last.before.Session.CurrentState)
    /\ Selected = handlers[MessageHandler][last.before.Session.CurrentState].Func

-----------------------------------------------------------------------------
(* C12 *)

\* C12: GetHandler leaves the registry as it was, partitions included, also
\* for a kind without a partition; it reports not found exactly when the
\* kind has no partition or the partition lacks the name; and a dispatch
\* leaves the registry as it was.
C12_LookupChangesNothing ==
    [][ /\ last'.op = "GetHandler"
            => /\ handlers' = handlers
               /\ last'.ok <=> Registered(last'.handlerType, last'.name)
        /\ last'.op = "Dispatch" => handlers' = handlers
      ]_vars

\* a lookup under a kind that has no partition has just reported not found,
\* and the kind still has no partition
C12_Witness ==
    /\ last.op = "GetHandler"
    /\ handlers # NewRouteTable
    /\ last.handlerType \notin DOMAIN handlers
    /\ ~last.ok

-----------------------------------------------------------------------------
(* C13 *)

\* what GetHandler(name, kind) reports on registry r: found or not, and the
\* entry when found
Found(r, handlerType, name) ==
    LET g == RouteTableGetHandler(r, name, handlerType)
    IN  IF g.ok THEN <<TRUE, g.h>> ELSE <<FALSE>>

\* C13: a successful AddHandler(name, kind, f) adds the entry (kind, name)
\* with Name = name, Type = kind and handler f, and changes what no other
\* (kind', name') lookup reports; an AddHandler that returns InvalidArgument
\* or HandlerAlreadyExists leaves the registry, partitions included, as it was.
C13_AddHandlerFrame ==
    [][ last'.op = "AddHandler"
            => IF last'.err = Nil
               THEN /\ Found(handlers', last'.handlerType, last'.name)
                         = <<TRUE, [Name |-> last'.name, Type |-> last'.handlerType,
                                    Func |-> last'.f]>>
                    /\ \A k \in HandlerAction, n \in Names :
                          <<k, n>> # <<last'.handlerType, last'.name>>
                              => Found(handlers', k, n) = Found(handlers, k, n)
               ELSE handlers' = handlers
      ]_vars

\* a second name has just been registered in a partition that held another
C13_Witness ==
    /\ last.op = "AddHandler"
    /\ last.err = Nil
    /\ Cardinality(DOMAIN handlers[last.handlerType]) = 2

-----------------------------------------------------------------------------
(* C14 *)

\* the dispatch fell back to the default handler
FellBack == Dispatched /\ Selected = defaultHandler

\* C14: when the dispatcher falls back to the default handler, the context
\* given to next carries, for a callback without a handler, the args parsed
\* from the payload, and otherwise (a command without a handler, a message
\* without a Document or MessageState handler, an update that is neither)
\* the parameter list the context had before the dispatch.
C14_FallbackParams ==
    FellBack =>
        /\ IF IsCallback
           THEN LET data == last.before.Update.CallbackQuery.Data
                IN  IF data = EmptyString
                    THEN last.context.Params = <<>>
                    ELSE IsSplitOf(<<FirstField(data, CommandDelimiter)>>
                                       \o last.context.Params,
                                   data, CommandDelimiter)
           ELSE last.context.Params = last.before.Params
        /\ \A i \in 1..Len(last.calls) :
              last.calls[i].call = "next"
                  => /\ last.calls[i].Params = last.context.Params
                     /\ last.calls[i].handler = defaultHandler

\* a command without a handler, with arguments, on a context that carried
\* parameters: they are still there
C14_Witness ==
    /\ IsCommand
    /\ FellBack
    /\ last.before.Update.Message.CommandArguments # EmptyString
    /\ last.before.Params # <<>>
    /\ last.context.Params = last.before.Params

-----------------------------------------------------------------------------
(* C15 *)

\* C15 as claimed: for a message (no callback, no command) with none of the
\* seven attachment fields set, the document type tag defaults to "document"
\* and the Document lookup is made under that tag.
C15_AsClaimed ==
    /\ (last.op = "getDocumentType" /\ last.message.attached = {})
           => last.docType = StrDocument
    /\ (IsPlainMessage /\ last.before.Update.Message.attached = {})
           => /\ Len(last.lookups) >= 1
              /\ last.lookups[1] = [name |-> StrDocument, handlerType |-> DocumentHandler]

\* C15 amended: getDocumentType gives "document" for a message with none of
\* the seven attachment fields set, but the dispatcher makes no Document
\* lookup for such a message: it goes to the session-state check, which is
\* the only lookup it can make.
C15_NoAttachmentNoDocumentLookup ==
    /\ (last.op = "getDocumentType" /\ last.message.attached = {})
           => last.docType = StrDocument
    /\ (IsPlainMessage /\ last.before.Update.Message.attached = {})
           => last.lookups = IF HasSession
                             THEN <<[name |-> last.before.Session.CurrentState,
                                     handlerType |-> MessageHandler]>>
                             ELSE <<>>

\* a message without an attachment was dispatched with a session, while the
\* Document partition exists: only the MessageState lookup was made
C15_Witness ==
    /\ IsPlainMessage
    /\ last.before.Update.Message.attached = {}
    /\ HasSession
    /\ DocumentHandler \in DOMAIN handlers
    /\ Len(last.lookups) = 1
    /\ last.lookups[1].handlerType = MessageHandler

-----------------------------------------------------------------------------
(* C16 *)
\* Once registration has finished, concurrent dispatches against the same
\* registry are safe: under every interleaving of their steps no step taken
\* while a dispatch is under way modifies the registry, and every dispatch
\* that has returned selected the handler and the parameter list (and made
\* the lookups and the SetHandler / next calls) that the middleware run alone
\* on its context, against that registry, selects.

DispatchedAlone(g, frame, router) ==
    LET alone == RouterMiddleware(router, frame[g].before)
    IN  /\ frame[g].context.handler = alone.context.handler
        /\ frame[g].context.Params = alone.context.Params
        /\ frame[g].lookups = alone.lookups
        /\ frame[g].calls = alone.calls

C16_ConcurrentDispatchesSafe ==
    [][ (\E g \in Dispatchers : running'.frame[g].pc # "idle") =>
            /\ handlers' = handlers
            /\ \A g \in Dispatchers :
                   running'.frame[g].pc = "done" =>
                       DispatchedAlone(g, running'.frame, handlers') ]_vars

\* two dispatches are under way at once on different contexts: one has
\* returned with a registered Callback handler and the payload's parameters,
\* the other, a command without a handler, has selected the default handler
\* and has yet to call next
C16_Witness ==
    /\ Frame("d1").pc = "done" /\ Frame("d2").pc = "line116"
    /\ Frame("d1").before.Update.CallbackQuery # NilPtr
    /\ Frame("d1").context.handler \in Funcs
    /\ Frame("d1").context.Params = <<StrA>>
    /\ Frame("d2").before.Update.CallbackQuery = NilPtr
    /\ Frame("d2").before.Update.Message # NilPtr
    /\ Frame("d2").before.Update.Message.IsCommand
    /\ Frame("d2").context.handler = defaultHandler
    /\ Frame("d2").context.Params = <<StrA>>

-----------------------------------------------------------------------------
(* C17 *)

\* C17: a message (no callback, no command) with an attachment whose tag has
\* a Document handler gets that Document handler, also when a session is
\* attached whose state has a MessageState handler, and the context's
\* parameter list stays as it was before the dispatch.
C17_DocumentHandlerBeforeSessionState ==
    (IsPlainMessage /\ DocumentSelected)
        => /\ Selected = handlers[DocumentHandler]
                                 [EarliestTag(last.before.Update.Message.attached)].Func
           /\ last.context.Params = last.before.Params
           /\ \A i \in 1..Len(last.calls) :
                 last.calls[i].call = "next" => last.calls[i].Params = last.before.Params

\* such a message on a context that carried parameters, with a session whose
\* state has another handler registered: the Document handler was selected
\* and the parameters are still there
C17_Witness ==
    /\ IsPlainMessage
    /\ DocumentSelected
    /\ HasSession
    /\ Registered(MessageHandler, last.before.Session.CurrentState)
    /\ handlers[MessageHandler][last.before.Session.CurrentState].Func # Selected
    /\ last.before.Params # <<>>
    /\ last.context.Params = last.before.Params

-----------------------------------------------------------------------------
(* C18 *)
\* The uniqueness of (kind, name) under dynamic registration: of two
\* AddHandler calls for the same (kind, name) with different handlers that
\* have run concurrently, at most one has returned success, and once both
\* have returned the handler GetHandler returns is that of the call that
\* succeeded; and a GetHandler that has run concurrently with AddHandler
\* calls has returned either not found or the complete entry of one of them.

WriterDone(w) == Frame(w).pc = "done"
SameKey(v, w) ==
    /\ Frame(v).name = Frame(w).name
    /\ Frame(v).handlerType = Frame(w).handlerType
Succeeded(w) == WriterDone(w) /\ Frame(w).err = Nil

\* both calls, for the same (kind, name) with different handlers, succeeded
BothSucceeded ==
    \E v, w \in Writers :
        /\ v # w /\ Succeeded(v) /\ Succeeded(w)
        /\ SameKey(v, w) /\ Frame(v).f # Frame(w).f

\* a call succeeded, every call has returned, and GetHandler does not return
\* the handler of a call that succeeded for that (kind, name)
SucceededNotReturned ==
    /\ \A w \in Writers : WriterDone(w)
    /\ \E v \in Writers :
           /\ Succeeded(v)
           /\ LET res == RouteTableGetHandler(handlers, Frame(v).name, Frame(v).handlerType)
              IN  ~ /\ res.ok
                    /\ \E w \in Writers :
                           /\ Succeeded(w) /\ SameKey(v, w)
                           /\ res.h = HandlerInfo(Frame(w).name, Frame(w).handlerType,
                                                  Frame(w).f)
                           /\ \A u \in Writers : Succeeded(u) /\ SameKey(u, w) => u = w

\* the concurrent GetHandler returned found with something that is not the
\* entry of an AddHandler call for that (kind, name)
IncompleteEntryReturned ==
    \E g \in Readers :
        /\ Frame(g).pc = "done" /\ Frame(g).ok
        /\ ~ \E w \in Writers :
                 /\ Frame(w).pc # "idle"
                 /\ Frame(w).name = Frame(g).name
                 /\ Frame(w).handlerType = Frame(g).handlerType
                 /\ Frame(g).h = HandlerInfo(Frame(w).name, Frame(w).handlerType, Frame(w).f)

C18_AsClaimed ==
    /\ ~BothSucceeded
    /\ ~SucceededNotReturned
    /\ ~IncompleteEntryReturned

-----------------------------------------------------------------------------
(* C19 *)

\* the payload parses to the empty action: it is empty or begins with "|"
EmptyAction(data) == data = EmptyString \/ data[1] = CommandDelimiter

\* C19: no partition of a registry built by AddHandler calls holds an entry
\* with the empty name; so a callback whose payload is empty or begins with
\* "|" is looked up under the empty action and gets the default handler,
\* whatever is registered.
C19_NoEmptyNameEmptyActionDefault ==
    /\ \A k \in DOMAIN handlers : EmptyString \notin DOMAIN handlers[k]
    /\ (IsCallback /\ EmptyAction(last.before.Update.CallbackQuery.Data))
           => /\ last.lookups = <<[name |-> EmptyString, handlerType |-> CallbackHandler]>>
              /\ Selected = defaultHandler

\* a callback whose payload begins with "|" was dispatched while Callback
\* handlers are registered: the default handler was selected
C19_Witness ==
    /\ IsCallback
    /\ last.before.Update.CallbackQuery.Data # EmptyString
    /\ EmptyAction(last.before.Update.CallbackQuery.Data)
    /\ CallbackHandler \in DOMAIN handlers
    /\ Selected = defaultHandler

-----------------------------------------------------------------------------
(* C20 *)

\* the kinds the branch taken by the dispatched update looks up
BranchKinds ==
    IF IsCallback THEN {CallbackHandler}
    ELSE IF IsCommand THEN {CommandHandler}
    ELSE {DocumentHandler, MessageHandler}

\* C20: the partitions are isolated by kind.  Every entry sits under the
\* kind and name it was registered with and carries them as Type and Name; a
\* registration is rejected as existing only when that name was registered
\* under that same kind; GetHandler(name, kind), when it finds, returns the
\* entry registered under exactly (kind, name); and a dispatch that selects
\* a registered handler selects one registered under the kind its branch
\* looked up.
C20_KindsIsolated ==
    /\ \A k \in DOMAIN handlers : \A n \in DOMAIN handlers[k] :
          /\ <<k, n>> \in DOMAIN first
          /\ handlers[k][n] = [Name |-> n, Type |-> k, Func |-> first[<<k, n>>]]
    /\ (last.op = "AddHandler" /\ last.err.type = "HandlerAlreadyExists")
           => <<last.handlerType, last.name>> \in DOMAIN first
    /\ (last.op = "AddHandler" /\ last.name # EmptyString)
           => <<last.handlerType, last.name>> \in DOMAIN first
    /\ (last.op = "GetHandler" /\ last.ok)
           => /\ <<last.handlerType, last.name>> \in DOMAIN first
              /\ last.h = [Name |-> last.name, Type |-> last.handlerType,
                           Func |-> first[<<last.handlerType, last.name>>]]
    /\ (Dispatched /\ Selected # defaultHandler)
           => /\ Len(last.lookups) >= 1
              /\ LET l == last.lookups[Len(last.lookups)]
                 IN  /\ l.handlerType \in BranchKinds
                     /\ <<l.handlerType, l.name>> \in DOMAIN first
                     /\ Selected = first[<<l.handlerType, l.name>>]

\* the name "a" is registered under each of the four kinds, not with the
\* same handler everywhere, and a lookup has just found one of the entries
C20_Witness ==
    /\ \A k \in HandlerAction : Registered(k, StrA)
    /\ \E k \in HandlerAction : handlers[k][StrA].Func # handlers[CommandHandler][StrA].Func
    /\ last.op = "GetHandler"
    /\ last.ok
    /\ last.name = StrA

====
